---------------------------- MODULE Spec2Model ----------------------------
(***************************************************************************)
(* A model of ocr_drug_test_adder.py: the recognizer's fragments are       *)
(* ordered and joined into one text (extract_text_from_image), the text    *)
(* is corrected and parsed into a record of seven fields (parse_fields),   *)
(* and the record is appended to DrugTestingOrganizer.csv by a load,       *)
(* append, rewrite of the whole file (add_to_csv).  DrugTestApp's          *)
(* select_image runs the three in sequence and catches every exception.    *)
(*                                                                         *)
(* A Python str is modelled as a sequence of one-character strings, so     *)
(* that str.replace, the regular expressions, strip, capitalize and the    *)
(* date and integer conversions are computed character by character.       *)
(***************************************************************************)
EXTENDS Integers, Sequences, FiniteSets, TLC

VARIABLES
    store,      \* DrugTestingOrganizer.csv: [exists, lines]
    result,     \* what reader.readtext returned in the last run
    text,       \* the reconstructed text of the last run
    fields,     \* the dict parse_fields built in the last run
    outcome,    \* how the last run of select_image ended
    missing,    \* the field names in the last "Incomplete data" error
    before,     \* the store as it was when the last run began
    appended,   \* the dicts of the add_to_csv calls that returned, in order
    damaged,    \* whether a to_csv call has failed after opening the file
    pc,         \* racing runs: where each process is in add_to_csv
    df,         \* racing runs: the DataFrame each process has loaded
    rec,        \* racing runs: the dict each process appends
    loaded      \* racing runs: how many add_to_csv calls had returned when each loaded

vars == <<store, result, text, fields, outcome, missing, before, appended,
          damaged, pc, df, rec, loaded>>

-----------------------------------------------------------------------------
(* Characters and character classes.                                       *)

UpperSeq == <<"A","B","C","D","E","F","G","H","I","J","K","L","M","N","O","P","Q","R","S","T","U","V","W","X","Y","Z">>
LowerSeq == <<"a","b","c","d","e","f","g","h","i","j","k","l","m","n","o","p","q","r","s","t","u","v","w","x","y","z">>
DigitSeq == <<"0","1","2","3","4","5","6","7","8","9">>

Range(s) == {s[i] : i \in 1..Len(s)}

Uppers == Range(UpperSeq)
Lowers == Range(LowerSeq)
Letters == Uppers \cup Lowers           \* [A-Za-z]
Digits == Range(DigitSeq)               \* \d
Spaces == {" ", "\t", "\n", "\r"}       \* \s
Newline == {"\n"}                       \* what . does not match
ColonSpace == Spaces \cup {":"}         \* [:\s]
LetterSpace == Letters \cup Spaces      \* [A-Za-z\s]

\* str.lower and str.upper on one character
lower(c) == IF c \in Uppers THEN LowerSeq[CHOOSE i \in 1..26 : UpperSeq[i] = c] ELSE c
upper(c) == IF c \in Lowers THEN UpperSeq[CHOOSE i \in 1..26 : LowerSeq[i] = c] ELSE c

Max(S) == CHOOSE x \in S : \A y \in S : y <= x
Min(S) == CHOOSE x \in S : \A y \in S : x <= y

\* Python's None, a value no str equals
None == <<"None">>
\* the truth value Python gives a field: None and '' are false
truthy(v) == v # None /\ v # <<>>

-----------------------------------------------------------------------------
(* str methods.                                                            *)

\* whether lit occurs in t at index i (ic: re.IGNORECASE)
LitAt(t, i, lit, ic) ==
    /\ i >= 1
    /\ i + Len(lit) - 1 <= Len(t)
    /\ \A k \in 1..Len(lit) :
          IF ic THEN lower(t[i + k - 1]) = lower(lit[k]) ELSE t[i + k - 1] = lit[k]

\* str.replace(old, new): every occurrence, left to right, not overlapping
RECURSIVE ReplaceFrom(_, _, _, _)
ReplaceFrom(t, i, old, new) ==
    LET at == {k \in i..Len(t) : LitAt(t, k, old, FALSE)}
    IN  IF at = {} THEN SubSeq(t, i, Len(t))
        ELSE SubSeq(t, i, Min(at) - 1) \o new \o ReplaceFrom(t, Min(at) + Len(old), old, new)

replace(t, old, new) == ReplaceFrom(t, 1, old, new)

\* str.strip()
strip(s) ==
    LET keep == {i \in 1..Len(s) : s[i] \notin Spaces}
    IN  IF keep = {} THEN <<>> ELSE SubSeq(s, Min(keep), Max(keep))

\* str.upper() and str.capitalize()
upper_str(s) == [i \in 1..Len(s) |-> upper(s[i])]
capitalize(s) == [i \in 1..Len(s) |-> IF i = 1 THEN upper(s[i]) ELSE lower(s[i])]

\* int(s) of a run of digits, and the decimal digits of n >= 0
RECURSIVE int(_)
int(s) ==
    IF s = <<>> THEN 0
    ELSE 10 * int(SubSeq(s, 1, Len(s) - 1))
         + (CHOOSE d \in 0..9 : DigitSeq[d + 1] = s[Len(s)])

RECURSIVE digits(_)
digits(n) ==
    IF n < 10 THEN <<DigitSeq[n + 1]>>
    ELSE digits(n \div 10) \o <<DigitSeq[(n % 10) + 1]>>

\* f"{n:0wd}": the digits of n, zero-filled to a width of at least w
RECURSIVE zfill(_, _)
zfill(s, w) == IF Len(s) >= w THEN s ELSE zfill(<<"0">> \o s, w)

format_d(n, w) == zfill(digits(n), w)

-----------------------------------------------------------------------------
(* Regular expression pieces.  A match is [s, e, gs, ge]: the match is     *)
(* t[s..e-1] and group 1 is t[gs..ge-1]; s = 0 means no match.             *)

NoMatch == [s |-> 0, e |-> 0, gs |-> 0, ge |-> 0]

\* the end (exclusive) of the longest run of characters of C from p: C*
RunEnd(t, p, C) == Min({j \in p..(Len(t) + 1) : j = Len(t) + 1 \/ t[j] \notin C})

\* the end (exclusive) of the longest run of characters not in C from p
RunEndNot(t, p, C) == Min({j \in p..(Len(t) + 1) : j = Len(t) + 1 \/ t[j] \in C})

\* the largest element of a set of indices, 0 when there is none
last_of(S) == IF S = {} THEN 0 ELSE Max(S)
first_of(S) == IF S = {} THEN 0 ELSE Min(S)

\* the match of a pattern piece that began at p whose group is t[k..e-1]
piece(p, k, e) ==
    IF k = 0 THEN NoMatch ELSE [s |-> p, e |-> e, gs |-> k, ge |-> e]

\* a digits, "/", b digits, "/", four digits at k
date_shape(t, k, a, b) ==
    /\ k + a + b + 5 <= Len(t)
    /\ \A i \in 0..(a + b + 5) :
          IF i = a \/ i = a + b + 1 THEN t[k + i] = "/" ELSE t[k + i] \in Digits

\* \d{1,2}/\d{1,2}/\d{4} at k: the end (exclusive) of the match, 0 if none.
\* Each \d{1,2} takes two digits when what follows then matches, else one.
DateEnd(t, k) ==
    IF date_shape(t, k, 2, 2) THEN k + 10
    ELSE IF date_shape(t, k, 2, 1) THEN k + 9
    ELSE IF date_shape(t, k, 1, 2) THEN k + 9
    ELSE IF date_shape(t, k, 1, 1) THEN k + 8
    ELSE 0

\* X*(G+) from p, X and G character classes: X* gives characters back until
\* a character of G follows it; the group is then the longest run of G
plus_from(t, p, G, k) == piece(p, k, IF k = 0 THEN 0 ELSE RunEnd(t, k, G))

StarPlus(t, p, X, G) ==
    plus_from(t, p, G, last_of({k \in p..RunEnd(t, p, X) : k <= Len(t) /\ t[k] \in G}))

\* X*(\d{1,2}/\d{1,2}/\d{4}) from p
date_from(t, p, k) == piece(p, k, IF k = 0 THEN 0 ELSE DateEnd(t, k))

StarDate(t, p, X) ==
    date_from(t, p, last_of({k \in p..RunEnd(t, p, X) : DateEnd(t, k) > 0}))

\* X*(.+?)(?=\n|$) and X*(.+) from p: lazy or greedy, the group ends where a
\* newline or the end of the text follows
line_from(t, p, k) == piece(p, k, IF k = 0 THEN 0 ELSE RunEndNot(t, k, Newline))

StarLine(t, p, X) ==
    line_from(t, p, last_of({k \in p..RunEnd(t, p, X) : k <= Len(t) /\ t[k] \notin Newline}))

\* X*(\d{6}) from p
six_from(t, p, q) == piece(p, IF RunEnd(t, q, Digits) >= q + 6 THEN q ELSE 0, q + 6)

StarSixDigits(t, p, X) == six_from(t, p, RunEnd(t, p, X))

\* nothing more: the pattern is the alternatives alone
Nothing(t, p) == [s |-> p, e |-> p, gs |-> p, ge |-> p]

\* what a pattern has after its leading alternatives, matched from p
rest_at(rest, t, p) ==
    CASE rest = "[:\\s]*([A-Za-z\\s]+)" -> StarPlus(t, p, ColonSpace, LetterSpace)
      [] rest = "[:\\s]*([A-Za-z]+)"    -> StarPlus(t, p, ColonSpace, Letters)
      [] rest = "\\s*[A-Za-z]+"         -> StarPlus(t, p, Spaces, Letters)
      [] rest = "[:\\s]*(\\d{6})"       -> StarSixDigits(t, p, ColonSpace)
      [] rest = "\\d{6}"                -> StarSixDigits(t, p, {})
      [] rest = "[:\\s]*(\\d{1,2}/\\d{1,2}/\\d{4})" -> StarDate(t, p, ColonSpace)
      [] rest = "(\\d{1,2}/\\d{1,2}/\\d{4})"        -> StarDate(t, p, {})
      [] rest = "[:\\s]*(.+?)(?=\\n|$)" -> StarLine(t, p, ColonSpace)
      [] rest = "\\s*(.+)"              -> StarLine(t, p, Spaces)
      [] rest = ""                      -> Nothing(t, p)

\* (?:alt1|alt2|...)rest at i: the alternatives are tried in order, and the first
\* one after which rest matches gives the match
match_alt(t, i, alts, rest, a) ==
    IF a = 0 THEN NoMatch ELSE [rest_at(rest, t, i + Len(alts[a])) EXCEPT !.s = i]

match_at(t, i, alts, ic, rest) ==
    match_alt(t, i, alts, rest,
              first_of({a \in 1..Len(alts) :
                          LitAt(t, i, alts[a], ic) /\ rest_at(rest, t, i + Len(alts[a])).s > 0}))

\* re.search: the match at the leftmost index where there is one
match_from(t, i, alts, ic, rest) ==
    IF i = 0 THEN NoMatch ELSE match_at(t, i, alts, ic, rest)

search(t, alts, ic, rest) ==
    match_from(t, first_of({i \in 1..Len(t) : match_at(t, i, alts, ic, rest).s > 0}),
               alts, ic, rest)

\* match.group() and match.group(1)
group(t, m) == SubSeq(t, m.s, m.e - 1)
group1(t, m) == SubSeq(t, m.gs, m.ge - 1)

-----------------------------------------------------------------------------
(* parse_fields.                                                           *)

Keys == <<"EmployeeID", "Name", "Department", "TestDate", "TestType", "Result", "Notes">>
KeySet == Range(Keys)

\* Step 1: the corrections dict, in its order: <<old, new>>
corrections == <<
    <<<<"E","m","P","l","o","x","e"," ","T","U","l">>, <<"E","m","p","l","o","y","e","e","I","D">>>>,
    <<<<"9","1"," ","9","1">>, <<"9","1","1","9","1","1">>>>,
    <<<<"N","a","m"," ","e"," ","[">>, <<"N","a","m","e">>>>,
    <<<<"G","o"," ","k","o","n">>, <<"B","r","i","f","o","n">>>>,
    <<<<"P","e","l","o","a","r","z">>, <<"P","e","t","e","r">>>>,
    <<<<"T","T">>, <<"I","T">>>>,
    <<<<"4","1","4","n",")"," ","0","2","5">>, <<"9","/","1","4","/","2","0","2","5">>>>,
    <<<<"T","e","s","t"," ","T","z","/","c","7">>, <<"T","e","s","t","T","y","p","e">>>>,
    <<<<"B","l","o","o","s">>, <<"B","l","o","o","d">>>>,
    <<<<"K","o","r","o","j">>, <<"R","e","s","u","l","t">>>>,
    <<<<"K","e","g","a","o","n"," ","+","o","t">>, <<"N","e","g","a","t","i","v","e">>>>,
    <<<<"N","o"," ","k","o">>, <<"N","o","t","e","s">>>>,
    <<<<"R","o","n","v"," ","o","m"," ","+","e","s","t">>, <<"R","a","n","d","o","m"," ","t","e","s","t">>>> >>

\* for old, new in corrections.items(): text = text.replace(old, new)
RECURSIVE correct_from(_, _)
correct_from(t, n) ==
    IF n > Len(corrections) THEN t
    ELSE correct_from(replace(t, corrections[n][1], corrections[n][2]), n + 1)

correct(t) == correct_from(t, 1)

\* Step 2: the patterns dict: the alternatives a pattern starts with, and the rest
patterns == [key \in KeySet |->
    CASE key = "EmployeeID" -> [alts |-> <<<<"E","m","p","l","o","y","e","e","I","D">>>>, rest |-> "[:\\s]*(\\d{6})"]
      [] key = "Name"       -> [alts |-> <<<<"N","a","m","e">>>>, rest |-> "[:\\s]*([A-Za-z\\s]+)"]
      [] key = "Department" -> [alts |-> <<<<"D","e","p","a","r","t","m","e","n","t">>, <<"I","T">>>>, rest |-> "[:\\s]*([A-Za-z\\s]+)"]
      [] key = "TestDate"   -> [alts |-> <<<<"T","e","s","t","D","a","t","e">>, <<"9","/","1","4","/","2","0","2","5">>>>,
                                rest |-> "[:\\s]*(\\d{1,2}/\\d{1,2}/\\d{4})"]
      [] key = "TestType"   -> [alts |-> <<<<"T","e","s","t","T","y","p","e">>, <<"B","l","o","o","d">>>>, rest |-> "[:\\s]*([A-Za-z]+)"]
      [] key = "Result"     -> [alts |-> <<<<"R","e","s","u","l","t">>, <<"N","e","g","a","t","i","v","e">>>>, rest |-> "[:\\s]*([A-Za-z]+)"]
      [] key = "Notes"      -> [alts |-> <<<<"N","o","t","e","s">>, <<"R","a","n","d","o","m"," ","t","e","s","t">>>>, rest |-> "[:\\s]*(.+?)(?=\\n|$)"]]

\* re.search(pattern, text, re.IGNORECASE)
pattern_search(key, t) == search(t, patterns[key].alts, TRUE, patterns[key].rest)

\* the days of a month of the proleptic Gregorian calendar
days_in_month(y, m) ==
    IF m \in {4, 6, 9, 11} THEN 30
    ELSE IF m = 2 THEN (IF (y % 4 = 0 /\ y % 100 # 0) \/ y % 400 = 0 THEN 29 ELSE 28)
    ELSE 31

\* whether datetime.strptime(f"{y:04d}-{m:02d}-{d:02d}", '%Y-%m-%d') returns
strptime_ok(y, m, d) ==
    /\ y >= 1 /\ y <= 9999
    /\ m >= 1 /\ m <= 12
    /\ d >= 1 /\ d <= days_in_month(y, m)

\* month, day, year = map(int, value.split('/')); the value reformatted, or None
\* when strptime raises ValueError
reformat_date(value) ==
    LET s1 == Min({i \in 1..Len(value) : value[i] = "/"})
        s2 == Max({i \in 1..Len(value) : value[i] = "/"})
        month == int(SubSeq(value, 1, s1 - 1))
        day == int(SubSeq(value, s1 + 1, s2 - 1))
        year == int(SubSeq(value, s2 + 1, Len(value)))
    IN  IF strptime_ok(year, month, day)
        THEN format_d(year, 4) \o <<"-">> \o format_d(month, 2) \o <<"-">> \o format_d(day, 2)
        ELSE None

\* lines 78-85: the value made of a match of the pattern of key
value_of(key, value) == IF key = "TestDate" THEN reformat_date(value) ELSE value

\* the value the loop of step 2 stores under key, None when the pattern is not found
stored(key, t, m) == IF m.s = 0 THEN None ELSE value_of(key, strip(group1(t, m)))

primary_value(key, t) == stored(key, t, pattern_search(key, t))

primary(t) == [key \in KeySet |-> primary_value(key, t)]

\* Step 3: the patterns of the fallbacks, and whether re.IGNORECASE is given
fallbacks == [key \in KeySet |->
    CASE key = "EmployeeID" -> [alts |-> << <<>> >>, ic |-> FALSE, rest |-> "\\d{6}"]
      [] key = "Name"       -> [alts |-> <<<<"P","e","t","e","r">>>>, ic |-> TRUE, rest |-> "\\s*[A-Za-z]+"]
      [] key = "Department" -> [alts |-> <<<<"I","T">>, <<"D","e","p","t">>>>, ic |-> TRUE, rest |-> ""]
      [] key = "TestDate"   -> [alts |-> << <<>> >>, ic |-> FALSE,
                                rest |-> "(\\d{1,2}/\\d{1,2}/\\d{4})"]
      [] key = "TestType"   -> [alts |-> <<<<"B","l","o","o","d">>, <<"U","r","i","n","e">>, <<"H","a","i","r">>, <<"S","a","l","i","v","a">>>>,
                                ic |-> TRUE, rest |-> ""]
      [] key = "Result"     -> [alts |-> <<<<"N","e","g","a","t","i","v","e">>, <<"P","o","s","i","t","i","v","e">>, <<"P","e","n","d","i","n","g">>>>,
                                ic |-> TRUE, rest |-> ""]
      [] key = "Notes"      -> [alts |-> <<<<"N","o","t","e","s">>>>, ic |-> TRUE, rest |-> "\\s*(.+)"]]

fallback_search(key, t) ==
    search(t, fallbacks[key].alts, fallbacks[key].ic, fallbacks[key].rest)

\* the value a fallback makes of its match
found(key, t, m) ==
    IF m.s = 0 THEN None
    ELSE CASE key = "Department" -> upper_str(group(t, m))
           [] key \in {"TestType", "Result"} -> capitalize(group(t, m))
           [] key = "Notes" -> strip(group1(t, m))
           [] OTHER -> group(t, m)

\* the value a fallback finds for key, None when it finds none
fallback_value(key, t) == found(key, t, fallback_search(key, t))

\* a variant without the "if not fields[key]" guard: a later stage overwrites
keep_or_overwrite(old, v) == IF v # None THEN v ELSE old

\* if not fields[key]: the fallback's value when it finds one
keep_or(old, v) == IF ~truthy(old) /\ v # None THEN v ELSE old

fallback_field(key, t, f) == keep_or(f[key], fallback_value(key, t))

fallback(t, f) == [key \in KeySet |-> fallback_field(key, t, f)]

Required == {"Name", "TestDate", "TestType"}

\* a variant that lists every required field, empty or not
missing_all(f) == SelectSeq(Keys, LAMBDA k : k \in Required)

\* the names the ValueError of line 125 lists, in the order of the dict
missing_fields(f) == SelectSeq(Keys, LAMBDA k : k \in Required /\ ~truthy(f[k]))

\* lines 124-127: the dict is returned (ok), or the ValueError naming the
\* missing fields is raised
validated(f, m) == [ok |-> m = <<>>, fields |-> f, missing |-> m]

validate(f) == validated(f, missing_fields(f))

\* steps 2 to 4 on the corrected text
parse_corrected(t) == validate(fallback(t, primary(t)))

parse_fields(t) == parse_corrected(correct(t))

-----------------------------------------------------------------------------
(* extract_text_from_image.  A fragment of reader.readtext's result is     *)
(* [y, t]: the y-coordinate of the top-left corner of its bounding box,    *)
(* item[0][0][1], and its text, item[1].                                   *)

\* an unstable variant: x goes before the elements of equal key
insert_before_equal(sorted, x) ==
    LET n == Cardinality({i \in 1..Len(sorted) : sorted[i].y < x.y})
    IN  SubSeq(sorted, 1, n) \o <<x>> \o SubSeq(sorted, n + 1, Len(sorted))

\* list.sort(key=...) is stable: x goes after every element whose key is not
\* greater than its own
insert_by_y(sorted, x) ==
    LET n == Cardinality({i \in 1..Len(sorted) : sorted[i].y <= x.y})
    IN  SubSeq(sorted, 1, n) \o <<x>> \o SubSeq(sorted, n + 1, Len(sorted))

RECURSIVE sort_by_y(_)
sort_by_y(r) ==
    IF r = <<>> THEN <<>>
    ELSE insert_by_y(sort_by_y(SubSeq(r, 1, Len(r) - 1)), r[Len(r)])

\* ' '.join(parts)
RECURSIVE join(_)
join(parts) ==
    IF parts = <<>> THEN <<>>
    ELSE IF Len(parts) = 1 THEN parts[1]
    ELSE parts[1] \o <<" ">> \o join(Tail(parts))

text_segments(r) == [i \in 1..Len(r) |-> sort_by_y(r)[i].t]

extract_text_from_image(r) == join(text_segments(r))

-----------------------------------------------------------------------------
(* add_to_csv.  The file is [exists, header, rows]: whether it exists, its *)
(* first line (the column names; <<>> in a file of zero bytes) and its     *)
(* data lines, each a sequence of cells, each cell the str written there.  *)
(* The csv module's quoting is not modelled: a cell is read back as the    *)
(* characters that were written.  A DataFrame is [columns, rows], a row a  *)
(* function from the column names to values of a dtype:                    *)
(*   [kind |-> "str", s]    a Python str                                   *)
(*   [kind |-> "int", n]    an int64                                       *)
(*   [kind |-> "float", n]  a float64 holding the whole number n           *)
(*   [kind |-> "nan"]       NaN or None                                    *)
(* Of read_csv's type inference the missing values and the integers are    *)
(* modelled; booleans and fractional numbers are not, and no cell the      *)
(* model writes is one.                                                    *)

column_order == Keys

Str(s) == [kind |-> "str", s |-> s, n |-> 0]
IntV(n) == [kind |-> "int", s |-> <<>>, n |-> n]
FloatV(n) == [kind |-> "float", s |-> <<>>, n |-> n]
NaN == [kind |-> "nan", s |-> <<>>, n |-> 0]

\* the strings read_csv takes for a missing value (keep_default_na)
na_values == {
    <<>>, <<"#","N","/","A">>, <<"#","N","/","A"," ","N","/","A">>, <<"#","N","A">>, <<"-","1",".","#","I","N","D">>, <<"-","1",".","#","Q","N","A","N">>, <<"-","N","a","N">>, <<"-","n","a","n">>,
    <<"1",".","#","I","N","D">>, <<"1",".","#","Q","N","A","N">>, <<"<","N","A",">">>, <<"N","/","A">>, <<"N","A">>, <<"N","U","L","L">>, <<"N","a","N">>, <<"N","o","n","e">>,
    <<"n","/","a">>, <<"n","a","n">>, <<"n","u","l","l">> }

\* whether read_csv parses s as an integer: an optional sign and digits
is_int(s) ==
    LET d == IF s # <<>> /\ s[1] \in {"+", "-"} THEN Tail(s) ELSE s
    IN  d # <<>> /\ \A i \in 1..Len(d) : d[i] \in Digits

int_of(s) ==
    IF s[1] = "-" THEN 0 - int(Tail(s))
    ELSE IF s[1] = "+" THEN int(Tail(s))
    ELSE int(s)

\* the values read_csv gives the cells of one column
infer_column(cells) ==
    LET isna(i) == cells[i] \in na_values
        idx == 1..Len(cells)
        numeric == (\E i \in idx : ~isna(i)) /\ \A i \in idx : isna(i) \/ is_int(cells[i])
        anyna == \E i \in idx : isna(i)
    IN  [i \in idx |->
            IF isna(i) THEN NaN
            ELSE IF numeric THEN (IF anyna THEN FloatV(int_of(cells[i])) ELSE IntV(int_of(cells[i])))
            ELSE Str(cells[i])]

\* pd.read_csv of a file that exists and has a header line
read_csv(file) ==
    LET col(j) == infer_column([i \in 1..Len(file.rows) |-> file.rows[i][j]])
    IN  [columns |-> file.header,
         rows |-> [i \in 1..Len(file.rows) |->
                     [c \in Range(file.header) |->
                        col(CHOOSE j \in 1..Len(file.header) : file.header[j] = c)[i]]]]

\* pd.DataFrame(columns=[...]), the frame of the except FileNotFoundError branch
empty_frame == [columns |-> column_order, rows |-> <<>>]

\* lines 131-134: the frame add_to_csv starts from
load(file) == IF file.exists THEN read_csv(file) ELSE empty_frame

\* pd.DataFrame([fields]): one row, its columns the keys of the dict
new_row(f) == [columns |-> Keys,
               rows |-> << [c \in KeySet |-> IF f[c] = None THEN NaN ELSE Str(f[c])] >>]

\* pd.concat([a, b], ignore_index=True) of frames with the same column names
concat(a, b) == [columns |-> a.columns, rows |-> a.rows \o b.rows]

\* frame[order]
select(frame, order) == [columns |-> order, rows |-> frame.rows]

\* the characters to_csv writes for a value
signed(n) == IF n < 0 THEN <<"-">> \o digits(0 - n) ELSE digits(n)

to_str(v) ==
    CASE v.kind = "str"   -> v.s
      [] v.kind = "int"   -> signed(v.n)
      [] v.kind = "float" -> signed(v.n) \o <<".","0">>
      [] v.kind = "nan"   -> <<>>

\* frame.to_csv(path, index=False) when it completes
to_csv(frame) ==
    [exists |-> TRUE,
     header |-> frame.columns,
     rows |-> [i \in 1..Len(frame.rows) |->
                 [j \in 1..Len(frame.columns) |-> to_str(frame.rows[i][frame.columns[j]])]]]

\* lines 136-141: the file add_to_csv writes from the frame it loaded
rewritten(frame, f) == to_csv(select(concat(frame, new_row(f)), column_order))

\* the file a to_csv call that raises can leave: untouched (open failed),
\* truncated to nothing, or the header and some of the lines
partial(old, new) ==
    {old, [exists |-> TRUE, header |-> <<>>, rows |-> <<>>]}
    \cup {[new EXCEPT !.rows = SubSeq(new.rows, 1, k)] : k \in 0..(Len(new.rows) - 1)}

\* the line to_csv writes for a dict appended to an absent file
line_of(f) == rewritten(empty_frame, f).rows[1]

-----------------------------------------------------------------------------
(* The inputs.                                                             *)

MaxAppends == 2     \* add_to_csv calls that return
MaxFrags == 3       \* fragments of one recognition
MaxPhrases == 3     \* phrases of one text given to parse_fields

Frag(y, t) == [y |-> y, t |-> t]

\* what reader.readtext returns for the images the user can select
Images == {
    \* the labelled note, its three lines recognized out of order
    << Frag(50, <<"R","e","s","u","l","t",":"," ","N","e","g","a","t","i","v","e"," ","N","o","t","e","s",":"," ","R","a","n","d","o","m"," ","t","e","s","t">>),
       Frag(10, <<"N","a","m","e",":"," ","P","e","t","e","r"," ","B","r","i","f","o","n"," ","D","e","p","a","r","t","m","e","n","t",":"," ","I","T">>),
       Frag(30, <<"T","e","s","t","D","a","t","e",":"," ","9","/","1","4","/","2","0","2","5"," ","T","e","s","t","T","y","p","e",":"," ","B","l","o","o","d">>) >>,
    \* the misreads the corrections dict was written for
    << Frag(10, <<"E","m","P","l","o","x","e"," ","T","U","l"," ","9","1"," ","9","1"," ","N","a","m"," ","e"," ","["," ","P","e","l","o","a","r","z"," ","G","o"," ","k","o","n"," ","T","T">>),
       Frag(20, <<"4","1","4","n",")"," ","0","2","5"," ","T","e","s","t"," ","T","z","/","c","7"," ","B","l","o","o","s">>),
       Frag(20, <<"K","o","r","o","j"," ","K","e","g","a","o","n"," ","+","o","t"," ","N","o"," ","k","o"," ","R","o","n","v"," ","o","m"," ","+","e","s","t">>) >>,
    << Frag(10, <<"D","e","p","a","r","t","m","e","n","t",":"," ","I","T">>) >>,
    << Frag(10, <<"N","a","m","e",":"," ","A","l"," ","T","e","s","t","D","a","t","e",":"," ","1","3","/","4","5","/","2","0","2","5"," ","T","e","s","t","T","y","p","e",":"," ","H","a","i","r">>) >>,
    << Frag(30, <<"2","/","2","9","/","2","0","2","4"," ","U","r","i","n","e">>), Frag(10, <<"N","a","m","e",":"," ","N","A">>) >>,
    << Frag(10, <<"E","m","p","l","o","y","e","e","I","D",":"," ","0","1","2","3","4","5"," ","N","a","m","e",":"," ","B","o">>), Frag(20, <<"T","e","s","t","D","a","t","e",":"," ","2","/","2","9","/","2","0","2","4",","," ","s","a","l","i","v","a">>) >>,
    << Frag(10, <<"B","l","o","o","d"," ","s","a","m","p","l","e">>), Frag(20, <<"T","e","s","t","T","y","p","e",":"," ","U","r","i","n","e"," ","T","e","s","t","D","a","t","e",":"," ","1","/","2","/","2","0","2","4"," ","N","a","m","e",":"," ","A","l">>) >>,
    << Frag(10, <<"N","a","m","e",":"," ","A","l",","," ","T","e","s","t","T","y","p","e",":"," ","U","r","i","n","e">>) >>,
    << Frag(10, <<"T","e","s","t","D","a","t","e",":"," ","1","/","2","/","2","0","2","4"," ","T","e","s","t","T","y","p","e",":"," ","H","a","i","r">>) >>,
    << Frag(10, <<"N","a","m","e",":"," ","A","l",","," ","T","e","s","t","D","a","t","e",":"," ","2","/","3","0","/","2","0","2","3">>) >>,
    << Frag(10, <<"P","e","t","e","r">>), Frag(10, <<"N","o","t","e","s",":">>) >>,
    << >>
  }

\* lines 172 and 175 for an image: its text and what parse_fields makes of it
parsed_text(t) == [text |-> t, parse |-> parse_fields(t)]

run_pipeline(img) == parsed_text(extract_text_from_image(img))

\* the fragment texts and corner heights of the recognitions SpecOcr draws
FragTexts == {<<"N","a","m","e",":">>, <<"P","e","t","e","r">>, <<"I","T">>}
Ys == {10, 30, 50}

RECURSIVE ListsUpTo(_, _)
ListsUpTo(S, n) ==
    IF n = 0 THEN {<<>>}
    ELSE ListsUpTo(S, n - 1)
         \cup {Append(l, x) : l \in {m \in ListsUpTo(S, n - 1) : Len(m) = n - 1}, x \in S}

Recognitions == ListsUpTo({Frag(y, t) : y \in Ys, t \in FragTexts}, MaxFrags)

\* the texts SpecParse draws: at most MaxPhrases of these, a space between two
Phrases == {<<"N","a","m","e",":"," ","A","l">>, <<"T","e","s","t","T","y","p","e",":"," ","U","r","i","n","e">>, <<"B","l","o","o","d">>, <<"T","e","s","t","D","a","t","e",":"," ","2","/","3","0","/","2","0","2","3">>,
            <<"9","/","1","4","/","2","0","2","5">>, <<"R","e","s","u","l","t",":"," ","N","e","g","a","t","i","v","e">>, <<"D","e","p","a","r","t","m","e","n","t",":"," ","I","T">>}

Texts == {join(l) : l \in ListsUpTo(Phrases, MaxPhrases)}

Procs == {1, 2}

-----------------------------------------------------------------------------
(* DrugTestApp.                                                            *)

NoFields == [k \in KeySet |-> None]
Absent == [exists |-> FALSE, header |-> <<>>, rows |-> <<>>]
NoFrame == [columns |-> <<>>, rows |-> <<>>]

\* the same for every image, as a table the actions look up
Pipeline == [img \in Images |-> run_pipeline(img)]

Init ==
    /\ store = Absent
    /\ result = <<>>
    /\ text = <<>>
    /\ fields = NoFields
    /\ outcome = "ready"
    /\ missing = <<>>
    /\ before = Absent
    /\ appended = <<>>
    /\ damaged = FALSE
    /\ pc = [p \in Procs |-> "idle"]
    /\ df = [p \in Procs |-> NoFrame]
    /\ rec = [p \in Procs |-> NoFields]
    /\ loaded = [p \in Procs |-> 0]

race_vars == <<pc, df, rec, loaded>>

\* select_image, lines 166-168: the dialog is cancelled
NoFileSelected ==
    /\ outcome' = "no_file"
    /\ before' = store
    /\ result' = <<>> /\ text' = <<>> /\ fields' = NoFields /\ missing' = <<>>
    /\ UNCHANGED <<store, appended, damaged, race_vars>>

\* select_image: preprocess_image or reader.readtext raises
RecognitionFails ==
    /\ outcome' = "recognition_error"
    /\ before' = store
    /\ result' = <<>> /\ text' = <<>> /\ fields' = NoFields /\ missing' = <<>>
    /\ UNCHANGED <<store, appended, damaged, race_vars>>

\* lines 172-176 of a run on img: the locals of select_image
Locals(img) ==
    /\ before' = store
    /\ result' = img
    /\ text' = Pipeline[img].text
    /\ fields' = Pipeline[img].parse.fields
    /\ missing' = Pipeline[img].parse.missing

\* select_image: parse_fields raises the ValueError
ValidationFails(img) ==
    /\ ~Pipeline[img].parse.ok
    /\ Locals(img)
    /\ outcome' = "validation_error"
    /\ UNCHANGED <<store, appended, damaged, race_vars>>

\* whether pd.read_csv of the file raises EmptyDataError
unreadable(file) == file.exists /\ file.header = <<>>

\* select_image: read_csv raises something other than FileNotFoundError
ReadFails(img) ==
    /\ Pipeline[img].parse.ok
    /\ store.exists
    /\ Locals(img)
    /\ outcome' = "storage_error"
    /\ UNCHANGED <<store, appended, damaged, race_vars>>

\* select_image: to_csv raises
WriteFails(img) ==
    /\ Pipeline[img].parse.ok
    /\ ~unreadable(store)
    /\ \E file \in partial(store, rewritten(load(store), Pipeline[img].parse.fields)) :
          /\ store' = file
          /\ damaged' = (damaged \/ file # store)
    /\ Locals(img)
    /\ outcome' = "storage_error"
    /\ UNCHANGED <<appended, race_vars>>

\* select_image: the row is added
Added(img) ==
    /\ Pipeline[img].parse.ok
    /\ ~unreadable(store)
    /\ Len(appended) < MaxAppends
    /\ store' = rewritten(load(store), Pipeline[img].parse.fields)
    /\ appended' = Append(appended, Pipeline[img].parse.fields)
    /\ Locals(img)
    /\ outcome' = "added"
    /\ UNCHANGED <<damaged, race_vars>>

Next ==
    \/ NoFileSelected
    \/ RecognitionFails
    \/ \E img \in Images : ValidationFails(img)
    \/ \E img \in Images : ReadFails(img)
    \/ \E img \in Images : WriteFails(img)
    \/ \E img \in Images : Added(img)

Spec == Init /\ [][Next]_vars

-----------------------------------------------------------------------------
(* extract_text_from_image alone, on every recognition of at most MaxFrags *)
(* fragments.                                                              *)

InitOcr ==
    /\ result \in Recognitions
    /\ text = <<>>
    /\ outcome = "recognized"
    /\ store = Absent /\ before = Absent /\ appended = <<>> /\ damaged = FALSE
    /\ fields = NoFields /\ missing = <<>>
    /\ pc = [p \in Procs |-> "idle"]
    /\ df = [p \in Procs |-> NoFrame]
    /\ rec = [p \in Procs |-> NoFields]
    /\ loaded = [p \in Procs |-> 0]

\* lines 26-31
ExtractText ==
    /\ outcome = "recognized"
    /\ text' = extract_text_from_image(result)
    /\ outcome' = "extracted"
    /\ UNCHANGED <<store, result, fields, missing, before, appended, damaged,
                   race_vars>>

NextOcr == ExtractText

SpecOcr == InitOcr /\ [][NextOcr]_vars

-----------------------------------------------------------------------------
(* parse_fields alone, on every text of at most MaxPhrases phrases.        *)

InitParse ==
    /\ text \in Texts
    /\ outcome = "text"
    /\ result = <<>>
    /\ store = Absent /\ before = Absent /\ appended = <<>> /\ damaged = FALSE
    /\ fields = NoFields /\ missing = <<>>
    /\ pc = [p \in Procs |-> "idle"]
    /\ df = [p \in Procs |-> NoFrame]
    /\ rec = [p \in Procs |-> NoFields]
    /\ loaded = [p \in Procs |-> 0]

\* what parse_fields leaves: the dict, and the names its error lists
Parsing(p) ==
    /\ fields' = p.fields
    /\ missing' = p.missing
    /\ outcome' = IF p.ok THEN "returned" ELSE "raised"

\* lines 33-127: parse_fields returns the dict
ParseReturns ==
    /\ outcome = "text"
    /\ parse_fields(text).ok
    /\ Parsing(parse_fields(text))
    /\ UNCHANGED <<store, result, text, before, appended, damaged, race_vars>>

\* lines 33-125: parse_fields raises the ValueError
ParseRaises ==
    /\ outcome = "text"
    /\ ~parse_fields(text).ok
    /\ Parsing(parse_fields(text))
    /\ UNCHANGED <<store, result, text, before, appended, damaged, race_vars>>

NextParse == ParseReturns \/ ParseRaises

SpecParse == InitParse /\ [][NextParse]_vars

-----------------------------------------------------------------------------
(* Two runs of the application against the same file: add_to_csv takes no  *)
(* lock, so the load of one process and its rewrite are separate steps.    *)

shell_vars == <<result, text, fields, outcome, missing, before, damaged>>

\* line 178: process p calls add_to_csv with the dict parsed from img
Call(p, img) ==
    /\ pc[p] = "idle"
    /\ Pipeline[img].parse.ok
    /\ Len(appended) + Cardinality({q \in Procs : pc[q] # "idle"}) < MaxAppends
    /\ rec' = [rec EXCEPT ![p] = Pipeline[img].parse.fields]
    /\ pc' = [pc EXCEPT ![p] = "load"]
    /\ UNCHANGED <<store, appended, df, loaded, shell_vars>>

\* lines 131-134
Load(p) ==
    /\ pc[p] = "load"
    /\ df' = [df EXCEPT ![p] = load(store)]
    /\ loaded' = [loaded EXCEPT ![p] = Len(appended)]
    /\ pc' = [pc EXCEPT ![p] = "write"]
    /\ UNCHANGED <<store, appended, rec, shell_vars>>

\* a variant in which the rewrite starts from the file as it is now
frame_reloaded(p) == load(store)

\* the frame the rewrite of process p starts from: the one it loaded
frame_of(p) == df[p]

\* lines 136-142
Write(p) ==
    /\ pc[p] = "write"
    /\ store' = rewritten(frame_of(p), rec[p])
    /\ appended' = Append(appended, rec[p])
    /\ pc' = [pc EXCEPT ![p] = "idle"]
    /\ UNCHANGED <<df, rec, loaded, shell_vars>>

NextRace ==
    \/ \E p \in Procs, img \in Images : Call(p, img)
    \/ \E p \in Procs : Load(p)
    \/ \E p \in Procs : Write(p)

SpecRace == Init /\ [][NextRace]_vars

-----------------------------------------------------------------------------
(* The claims.                                                             *)

\* the cell of data line i of a file under column k
cell(file, i, k) == file.rows[i][CHOOSE j \in 1..Len(file.header) : file.header[j] = k]

\* the last run got as far as parse_fields / got a dict back from it
ParsedRun == outcome \in {"added", "validation_error", "storage_error", "returned", "raised"}
ReturnedRun == outcome \in {"added", "storage_error", "returned"}
FailedRun == outcome \in {"recognition_error", "validation_error", "storage_error"}

\* YYYY-MM-DD
iso_date(s) ==
    /\ Len(s) = 10
    /\ \A i \in 1..10 : IF i \in {5, 8} THEN s[i] = "-" ELSE s[i] \in Digits

LabelledNote ==
    <<"N","a","m","e",":"," ","P","e","t","e","r"," ","B","r","i","f","o","n"," ","D","e","p","a","r","t","m","e","n","t",":"," ","I","T"," ","T","e","s","t","D","a","t","e",":"," ","9","/","1","4","/","2","0","2","5"," ","T","e","s","t","T","y","p","e",":"," ","B","l","o","o","d"," ","R","e","s","u","l","t",":"," ","N","e","g","a","t","i","v","e"," ","N","o","t","e","s",":"," ","R","a","n","d","o","m"," ","t","e","s","t">>

DepartmentOnly == <<"D","e","p","a","r","t","m","e","n","t",":"," ","I","T">>

\* C1: every data line of the store has a non-empty Name, TestDate and
\* TestType, in every state the store reaches.
C1_StoredRowsHaveRequiredFields ==
    \A i \in 1..Len(store.rows) : \A k \in Required : cell(store, i, k) # <<>>

\* C2: a run of select_image that fails leaves the store as it was when
\* the run began.
C2_FailedRunLeavesStore == FailedRun => store = before

\* C3: as long as no to_csv call has failed, the store holds one data line
\* for each add_to_csv call that returned, in the order of the calls, line i
\* the values of the i-th dict in the canonical column order.
C3_RowsAreTheAppendedRecords ==
    ~damaged =>
        /\ store.exists => store.header = column_order
        /\ store.rows = [i \in 1..Len(appended) |-> line_of(appended[i])]

\* whether the try block of lines 80-85 ends in the except branch: the
\* TestDate pattern finds a value that is no calendar date
date_rejected(t) ==
    /\ pattern_search("TestDate", t).s > 0
    /\ reformat_date(strip(group1(t, pattern_search("TestDate", t)))) = None

\* C4: when the date value of the text is not a valid calendar date,
\* parse_fields ends with an empty TestDate and fails validation.
C4_RejectedDateLeavesTestDateEmpty ==
    (ParsedRun /\ date_rejected(correct(text))) =>
        (~truthy(fields["TestDate"]) /\ outcome = "validation_error")

\* C5: the TestDate of every dict parse_fields returns, and of every data
\* line of the store, has the form YYYY-MM-DD.
C5_TestDateIsReformatted ==
    /\ ReturnedRun => iso_date(fields["TestDate"])
    /\ \A i \in 1..Len(store.rows) : iso_date(cell(store, i, "TestDate"))

LabelledRecord ==
    [k \in KeySet |->
        CASE k = "EmployeeID" -> None
          [] k = "Name"       -> <<"P","e","t","e","r"," ","B","r","i","f","o","n">>
          [] k = "Department" -> <<"I","T">>
          [] k = "TestDate"   -> <<"2","0","2","5","-","0","9","-","1","4">>
          [] k = "TestType"   -> <<"B","l","o","o","d">>
          [] k = "Result"     -> <<"N","e","g","a","t","i","v","e">>
          [] k = "Notes"      -> <<"R","a","n","d","o","m"," ","t","e","s","t">>]

\* C6: the labelled note parses to Name "Peter Brifon", Department "IT",
\* TestDate "2025-09-14", TestType "Blood", Result "Negative" and Notes
\* "Random test", and the run that adds it leaves that line last in the store.
C6_LabelledNoteParses ==
    (ParsedRun /\ text = LabelledNote) =>
        /\ fields = LabelledRecord
        /\ outcome = "added" => store.rows[Len(store.rows)] = line_of(LabelledRecord)

\* C7: the validation error names exactly the required fields that are
\* still empty, the text "Department: IT" is refused with Name, TestDate and
\* TestType named, and the store is as it was before the run.
C7_ErrorNamesTheMissingFields ==
    /\ outcome = "validation_error" =>
          /\ \A k \in KeySet :
                (\E n \in 1..Len(missing) : missing[n] = k)
                    <=> (k \in Required /\ fields[k] \in {None, <<>>})
          /\ missing # <<>>
          /\ store = before
    /\ (ParsedRun /\ text = DepartmentOnly) =>
          /\ outcome = "validation_error"
          /\ missing = <<"Name", "TestDate", "TestType">>

\* C7's case: "Department: IT" is refused while the store holds a line
C7_Witness ==
    /\ outcome = "validation_error"
    /\ text = DepartmentOnly
    /\ missing = <<"Name", "TestDate", "TestType">>
    /\ Len(store.rows) > 0

\* the place the stable order by y gives fragment i of r
rank(r, i) ==
    Cardinality({j \in 1..Len(r) : r[j].y < r[i].y \/ (r[j].y = r[i].y /\ j < i)}) + 1

\* where the k-th fragment in that order begins in the joined text
RECURSIVE offset(_, _)
offset(r, k) ==
    IF k = 1 THEN 1
    ELSE offset(r, k - 1) + Len(r[CHOOSE i \in 1..Len(r) : rank(r, i) = k - 1].t) + 1

\* C8: the text is the fragments' texts in ascending order of y, fragments
\* of equal y in the recognizer's order, each once, a single space between
\* two; fragments at y = 50, 10, 30 come out as the second, third and first.
C8_TextIsFragmentsInStableYOrder ==
    outcome = "extracted" =>
        /\ \A i \in 1..Len(result) :
              /\ SubSeq(text, offset(result, rank(result, i)),
                        offset(result, rank(result, i)) + Len(result[i].t) - 1) = result[i].t
              /\ rank(result, i) < Len(result)
                    => text[offset(result, rank(result, i)) + Len(result[i].t)] = " "
              /\ rank(result, i) = Len(result)
                    => Len(text) = offset(result, rank(result, i)) + Len(result[i].t) - 1
        /\ result = <<>> => text = <<>>
        /\ [i \in 1..Len(result) |-> result[i].y] = <<50, 10, 30>>
              => text = result[2].t \o <<" ">> \o result[3].t \o <<" ">> \o result[1].t

\* C8's case: three different fragments at y = 50, 10, 30 have been joined
C8_Witness ==
    /\ outcome = "extracted"
    /\ [i \in 1..Len(result) |-> result[i].y] = <<50, 10, 30>>
    /\ result[1].t # result[2].t /\ result[2].t # result[3].t /\ result[1].t # result[3].t
    /\ text = result[2].t \o <<" ">> \o result[3].t \o <<" ">> \o result[1].t

\* the keys whose pattern starts with a label and a sentinel
TwoWay == {k \in KeySet : Len(patterns[k].alts) = 2}

\* the match of the pattern of key with only its label (a = 1) or only its
\* sentinel (a = 2) for a start
only(key, t, a) == search(t, <<patterns[key].alts[a]>>, TRUE, patterns[key].rest)

\* the value the label of key gives in the corrected text t
label_value(k, t) == stored(k, t, only(k, t, 1))

LabelValueIsTaken(t) ==
    \A k \in TwoWay : truthy(label_value(k, t)) => fields[k] = label_value(k, t)

\* C9 as claimed: when the text has the label of a field with a value, the
\* field has the label's value, wherever the sentinel is.
C9_LabelValueIsTaken == ParsedRun => LabelValueIsTaken(correct(text))

\* of the label's match and the sentinel's, the one that starts leftmost
leftmost(ml, ms) == IF ml.s > 0 /\ (ms.s = 0 \/ ml.s < ms.s) THEN ml ELSE ms

LeftmostAlternative(t) ==
    \A k \in TwoWay :
        primary_value(k, t) = stored(k, t, leftmost(only(k, t, 1), only(k, t, 2)))

PrimaryThenFallback(k, p, fb) ==
    /\ truthy(p) => fields[k] = p
    /\ ~truthy(p) => fields[k] = (IF fb = None THEN p ELSE fb)

\* C9 amended: the label and the sentinel are alternatives of one pattern, and
\* the one that occurs leftmost in the corrected text gives the value; a
\* non-empty value of the primary stage is what the field ends with, and an
\* empty one is replaced only by what the fallback finds.
C9_LeftmostAlternativeThenFallback ==
    outcome \in {"returned", "raised"} =>
        /\ LeftmostAlternative(correct(text))
        /\ \A k \in KeySet :
              PrimaryThenFallback(k, primary_value(k, correct(text)),
                                  fallback_value(k, correct(text)))

SentinelFirst(t) ==
    /\ only("TestType", t, 2).s > 0
    /\ only("TestType", t, 1).s > only("TestType", t, 2).s
    /\ label_value("TestType", t) = <<"U","r","i","n","e">>
    /\ fallback_value("TestType", t) = <<"B","l","o","o","d">>

\* C9's case: the sentinel "Blood" stands before the label "TestType: Urine",
\* and the field has the word after the sentinel, "TestType": not the label's
\* "Urine", and not the fallback's "Blood"
C9_Witness ==
    /\ outcome \in {"returned", "raised"}
    /\ SentinelFirst(correct(text))
    /\ fields["TestType"] = <<"T","e","s","t","T","y","p","e">>

\* both processes have loaded and rewritten, and loaded before either rewrote
BothLoadedFirst ==
    /\ \A p \in Procs : pc[p] = "idle" /\ rec[p] # NoFields
    /\ loaded[1] = loaded[2]
    /\ Len(appended) = loaded[1] + 2

\* C10: when both processes load the store before either rewrites it, the
\* store ends with one data line more than they loaded, not two: the frame
\* of the later writer and its line, the earlier writer's line lost.
C10_LastWriterWins ==
    BothLoadedFirst =>
        /\ Len(df[1].rows) = Len(df[2].rows)
        /\ Len(store.rows) = Len(df[1].rows) + 1
        /\ store.rows[Len(store.rows)] = line_of(appended[Len(appended)])

\* C10's case: two different dicts were appended to the absent store and one
\* data line is there
C10_Witness ==
    /\ BothLoadedFirst
    /\ Len(appended) = 2
    /\ appended[1] # appended[2]
    /\ Len(store.rows) = 1

=============================================================================
